---- MODULE Spec2Model ----
(***************************************************************************)
(* A model of the news scraper's fetch / normalise / deduplicate pipeline: *)
(*   - DomainThrottler.throttle called from several threads  (SpecThrottle) *)
(*   - BaseScraper._fetch_page and the scrape() of sequentially run         *)
(*     scraper instances, with their requests on a clock      (SpecFetch)   *)
(*   - ArticleCollection under arbitrary call sequences    (SpecCollection) *)
(*   - the NewsScraper orchestrator                                 (Spec)  *)
(* Each specification drives its own group of variables and leaves the     *)
(* other groups at their initial values.                                   *)
(***************************************************************************)
EXTENDS Integers, Sequences, FiniteSets, TLC

VARIABLES
    \* wall clock, in seconds (time.time())
    clock,
    \* ---- one DomainThrottler shared by threads
    lock,            \* holder of DomainThrottler.lock, or NoThread
    last_request,    \* DomainThrottler.last_request : domain -> time
    domain_delays,   \* DomainThrottler.domain_delays : domain -> delay
    tpc,             \* position of each thread inside throttle()
    tdomain,         \* local `domain` of each thread
    tdelay,          \* local `delay` of each thread
    twake,           \* end of the thread's time.sleep()
    tcalls,          \* number of throttle() calls started so far
    returns,         \* history: per domain, its two most recent returns
    \* ---- an ArticleCollection
    collection,      \* [articles, total_count]
    cop,             \* history: the last call made on the collection
    \* ---- scraper instances run one after the other (scrape_*_news)
    fcfg,            \* config of the current scraper: [domain, rss_feed, pages]
    s_last_request,  \* last_request of the current scraper's own throttler
    fcur,            \* the scraper whose scrape() runs (NumScrapers+1: done)
    fpc,             \* position inside scrape() / _fetch_page
    fpage,           \* listing page being fetched by _scrape_html
    fattempts,       \* outcomes of the GET attempts of this _fetch_page call
    fwake,           \* end of the current sleep
    fthrottled,      \* throttle() returned and no GET was issued since
    requests,        \* history: per domain, its two most recent session GETs
    last_req,        \* history: the most recent request of any kind
    last_fetch,      \* history: the last finished _fetch_page call
    \* ---- one NewsScraper (its collection is `collection`)
    stats,           \* NewsScraper.stats
    op,              \* the operation called: [name, arg]
    opc,             \* position inside the operation
    oregion,         \* region whose scrape_*_news() runs
    oidx,            \* create_*_scrapers: index of the next source config
    scrapers,        \* create_*_scrapers: the scrapers created so far
    sidx,            \* scrape_*_news: index of the next scraper to run
    region_articles, \* scrape_*_news: all_articles
    all_articles,    \* scrape_all: all_articles
    oresult,         \* what the operation returned
    escaped,         \* an exception propagated out of the operation
    hist,            \* history of the run
    \* ---- Article construction
    built,           \* history: the two most recent Article(...) calls
    \* ---- one scraper's scrape()
    scrape_rec,      \* history: the most recent scrape() call
    \* ---- one SQLiteExporter
    db,              \* rows of the articles table
    export_rec,      \* history: the most recent export() call
    \* ---- validators.clean_text
    text_rec,        \* history: the most recent clean_text() call
    \* ---- one CSVExporter
    csv_rec,         \* history: the most recent export() call and its rows
    \* ---- one RateLimiter shared by threads
    rl_tokens,       \* RateLimiter.tokens : domain -> level, in token_parts
    rl_last_update,  \* RateLimiter.last_update : domain -> time
    rl_pc,           \* position of each thread inside wait()
    rl_domain,       \* local domain of each thread
    rl_wake,         \* end of the thread's time.sleep()
    rl_calls,        \* number of wait() calls started so far
    rl_returns,      \* history: per domain and time, the wait() calls returned
    rl_unpaid,       \* history: returns of wait() that took no token
    \* ---- one source scraped through scrape_all and through scrape_source
    run_rec          \* history: the scraper classes used and what they returned

throttleVars == <<lock, last_request, domain_delays, tpc, tdomain, tdelay,
                  twake, tcalls, returns>>

collectionVars == <<collection, cop>>

fetchVars == <<fcfg, s_last_request, fcur, fpc, fpage, fattempts, fwake,
               fthrottled, requests, last_req, last_fetch>>

runVars == <<stats, op, opc, oregion, oidx, scrapers, sidx, region_articles,
             all_articles, oresult, escaped, hist>>

articleVars == <<built>>

scrapeVars == <<scrape_rec>>

sinkVars == <<db, export_rec>>

textVars == <<text_rec>>

\* The groups of the utilities and of the other exporters.
csvVars == <<csv_rec>>

limiterVars == <<rl_tokens, rl_last_update, rl_pc, rl_domain, rl_wake, rl_calls,
                 rl_returns, rl_unpaid>>

dispatchVars == <<run_rec>>

utilVars == <<textVars, csvVars, limiterVars, dispatchVars>>

\* The groups driven by the specifications of single components.
partVars == <<articleVars, scrapeVars, sinkVars, utilVars>>

vars == <<clock, throttleVars, collectionVars, fetchVars, runVars, partVars>>

----------------------------------------------------------------------------
(* Bounds of the model                                                      *)

MaxTime == 4
NumThreads == 2
MaxCalls == 3
MaxBatch == 2
MaxFetchTime == 6
NumScrapers == 2
MaxItems == 2
MaxExtra == 2
MaxText == 5
MaxLength == 5
MaxCategories == 2
MaxWaits == 5

(* Program constants                                                        *)

default_delay == 2
burst_size == 3
token_parts == 2
refill_per_second == 1
stop_after_attempt == 3
wait_multiplier == 1
wait_min == 2
wait_max == 10
npr_sections == 2
nation_sections == 3
section_list_limit == 15
max_articles_per_source == 50
article_list_limit == 30
title_min_length == 1

Domains == {"a.example", "b.example"}
DelayChoices == {1, 3}
Threads == 1..NumThreads
NoThread == 0

----------------------------------------------------------------------------
(* Python dict helpers                                                      *)

DictGet(dict, k, default) == IF k \in DOMAIN dict THEN dict[k] ELSE default

DictSet(dict, k, v) ==
    [x \in (DOMAIN dict) \cup {k} |-> IF x = k THEN v ELSE dict[x]]

EmptyDict == [x \in {} |-> 0]

----------------------------------------------------------------------------
(* Time                                                                     *)

Tick ==
    /\ clock < MaxTime
    /\ clock' = clock + 1

----------------------------------------------------------------------------
(* DomainThrottler                                                          *)

ThrottlerInit ==
    /\ lock = NoThread
    /\ last_request = EmptyDict
    /\ domain_delays = EmptyDict
    /\ tpc = [t \in Threads |-> "idle"]
    /\ tdomain = [t \in Threads |-> "a.example"]
    /\ tdelay = [t \in Threads |-> default_delay]
    /\ twake = [t \in Threads |-> 0]
    /\ tcalls = 0
    /\ returns = [d \in Domains |-> <<>>]

\* The delay throttle() applies to a domain: the override if set, otherwise
\* the default.
DelayOf(d) == DictGet(domain_delays, d, default_delay)

\* How long throttle() sleeps at time `now` for a domain last requested
\* according to `last`: delay - elapsed when elapsed < delay, otherwise 0.
ThrottleWait(last, d, delay, now) ==
    IF d \in DOMAIN last /\ now - last[d] < delay
    THEN delay - (now - last[d])
    ELSE 0

\* set_domain_delay: the delays are configured before the throttler is used.
SetDomainDelay(d, v) ==
    /\ tcalls = 0
    /\ d \notin DOMAIN domain_delays
    /\ domain_delays' = DictSet(domain_delays, d, v)
    /\ UNCHANGED <<clock, lock, last_request, tpc, tdomain, tdelay, twake,
                   tcalls, returns, collectionVars, fetchVars, runVars, partVars>>

\* throttle(url), up to the `with self.lock`: the domain and its delay are read.
ThrottleCall(t, d) ==
    /\ tpc[t] = "idle"
    /\ tcalls < MaxCalls
    /\ tcalls' = tcalls + 1
    /\ tdomain' = [tdomain EXCEPT ![t] = d]
    /\ tdelay' = [tdelay EXCEPT ![t] = DelayOf(d)]
    /\ tpc' = [tpc EXCEPT ![t] = "acquire"]
    /\ UNCHANGED <<clock, lock, last_request, domain_delays, twake, returns, collectionVars, fetchVars, runVars, partVars>>

\* A plausible bug: the critical section is entered without taking the lock
\* (as async_throttle does).
ThrottleAcquireUnlocked(t) ==
    /\ tpc[t] = "acquire"
    /\ lock' = t
    /\ LET w == ThrottleWait(last_request, tdomain[t], tdelay[t], clock)
       IN  IF w > 0
           THEN /\ tpc' = [tpc EXCEPT ![t] = "sleep"]
                /\ twake' = [twake EXCEPT ![t] = clock + w]
           ELSE /\ tpc' = [tpc EXCEPT ![t] = "record"]
                /\ UNCHANGED twake
    /\ UNCHANGED <<clock, last_request, domain_delays, tdomain, tdelay,
                   tcalls, returns, collectionVars, fetchVars, runVars, partVars>>

\* `with self.lock:` is entered, `now` is read and the sleep, if any, starts.
\* The lock stays held while the thread sleeps.
ThrottleAcquire(t) ==
    /\ tpc[t] = "acquire"
    /\ lock = NoThread
    /\ lock' = t
    /\ LET w == ThrottleWait(last_request, tdomain[t], tdelay[t], clock)
       IN  IF w > 0
           THEN /\ tpc' = [tpc EXCEPT ![t] = "sleep"]
                /\ twake' = [twake EXCEPT ![t] = clock + w]
           ELSE /\ tpc' = [tpc EXCEPT ![t] = "record"]
                /\ UNCHANGED twake
    /\ UNCHANGED <<clock, last_request, domain_delays, tdomain, tdelay,
                   tcalls, returns, collectionVars, fetchVars, runVars, partVars>>

\* time.sleep(delay - elapsed) ends: it lasts at least the time asked for.
ThrottleWake(t) ==
    /\ tpc[t] = "sleep"
    /\ clock >= twake[t]
    /\ tpc' = [tpc EXCEPT ![t] = "record"]
    /\ UNCHANGED <<clock, lock, last_request, domain_delays, tdomain, tdelay,
                   twake, tcalls, returns, collectionVars, fetchVars, runVars, partVars>>

\* The two most recent elements of a history.
LastTwo(s) == IF Len(s) <= 2 THEN s ELSE SubSeq(s, Len(s) - 1, Len(s))

\* self.last_request[domain] = time.time(); the lock is released and
\* throttle() returns.
ThrottleRecord(t) ==
    /\ tpc[t] = "record"
    /\ last_request' = DictSet(last_request, tdomain[t], clock)
    /\ lock' = IF lock = t THEN NoThread ELSE lock
    /\ returns' = [returns EXCEPT ![tdomain[t]] =
                       LastTwo(Append(@, [thread |-> t, time |-> clock]))]
    /\ tpc' = [tpc EXCEPT ![t] = "idle"]
    /\ UNCHANGED <<clock, domain_delays, tdomain, tdelay, twake, tcalls, collectionVars, fetchVars, runVars, partVars>>

ThrottleTick == Tick /\ UNCHANGED <<throttleVars, collectionVars, fetchVars, runVars, partVars>>

NextThrottle ==
    \/ ThrottleTick
    \/ \E d \in Domains, v \in DelayChoices : SetDomainDelay(d, v)
    \/ \E t \in Threads, d \in Domains : ThrottleCall(t, d)
    \/ \E t \in Threads : ThrottleAcquire(t)
    \/ \E t \in Threads : ThrottleWake(t)
    \/ \E t \in Threads : ThrottleRecord(t)

\* DomainThrottler.async_throttle(url) from its start to its first await or
\* its return: coroutines of one event loop run one at a time between
\* awaits, and no lock is taken.  The domain, its delay and `now` are read;
\* the coroutine either awaits asyncio.sleep(delay - elapsed) or records the
\* time and returns.
AsyncThrottleStart(t, d) ==
    /\ tpc[t] = "idle"
    /\ tcalls < MaxCalls
    /\ tcalls' = tcalls + 1
    /\ tdomain' = [tdomain EXCEPT ![t] = d]
    /\ tdelay' = [tdelay EXCEPT ![t] = DelayOf(d)]
    /\ LET w == ThrottleWait(last_request, d, DelayOf(d), clock)
       IN  IF w > 0
           THEN /\ tpc' = [tpc EXCEPT ![t] = "sleep"]
                /\ twake' = [twake EXCEPT ![t] = clock + w]
                /\ UNCHANGED <<last_request, returns>>
           ELSE /\ last_request' = DictSet(last_request, d, clock)
                /\ returns' = [returns EXCEPT ![d] =
                                   LastTwo(Append(@, [thread |-> t, time |-> clock]))]
                /\ UNCHANGED <<tpc, twake>>
    /\ UNCHANGED <<clock, lock, domain_delays, collectionVars, fetchVars,
                   runVars, partVars>>

\* The await of asyncio.sleep ends (after at least the time asked for), the
\* time is recorded and async_throttle returns.
AsyncThrottleResume(t) ==
    /\ tpc[t] = "sleep"
    /\ clock >= twake[t]
    /\ last_request' = DictSet(last_request, tdomain[t], clock)
    /\ returns' = [returns EXCEPT ![tdomain[t]] =
                       LastTwo(Append(@, [thread |-> t, time |-> clock]))]
    /\ tpc' = [tpc EXCEPT ![t] = "idle"]
    /\ UNCHANGED <<clock, lock, domain_delays, tdomain, tdelay, twake, tcalls,
                   collectionVars, fetchVars, runVars, partVars>>

NextAsyncThrottle ==
    \/ ThrottleTick
    \/ \E d \in Domains, v \in DelayChoices : SetDomainDelay(d, v)
    \/ \E t \in Threads, d \in Domains : AsyncThrottleStart(t, d)
    \/ \E t \in Threads : AsyncThrottleResume(t)

----------------------------------------------------------------------------
(* Article and ArticleCollection                                            *)

\* Strings are sequences of characters, so that concatenation is computed.
Urls == {<<"u">>, <<"u", "x">>}
Titles == {<<"t">>, <<"x", "t">>, <<" ", "t">>}
Summaries == {"s1", "s2"}

\* ' '.join(v.strip().split()) on a non-empty string: runs of blanks become
\* one blank, leading and trailing blanks go.
RECURSIVE Squeeze(_)
Squeeze(s) ==
    IF s = <<>> THEN <<>>
    ELSE IF Head(s) = " "
         THEN IF Tail(s) = <<>> \/ Head(Tail(s)) = " "
              THEN Squeeze(Tail(s))
              ELSE <<" ">> \o Squeeze(Tail(s))
         ELSE <<Head(s)>> \o Squeeze(Tail(s))

clean_title(v) ==
    LET q == Squeeze(v)
    IN  IF v = <<>> THEN v
        ELSE IF q # <<>> /\ Head(q) = " " THEN Tail(q) ELSE q

\* hashlib.md5(...).hexdigest()[:16]: an injective function of its input on
\* the strings of the model.
Md5Hex16(s) == <<"#">> \o s

\* Article._generate_id: the hash of url and title concatenated.
GenerateId(url, title) == Md5Hex16(url \o title)

\* Article(title=..., url=..., summary=...): the validators run, then the id
\* is generated from the validated fields.
MakeArticle(title, url, summary) ==
    [id |-> GenerateId(url, clean_title(title)),
     title |-> clean_title(title),
     url |-> url,
     summary |-> summary]

\* The (title, url) inputs of the model: a title that needs cleaning, and two
\* different pairs whose concatenation is the same string.
TitleUrls == {<<t, u>> \in Titles \X Urls : Len(t) + Len(u) <= 3}

ArticleUniverse == {MakeArticle(tu[1], tu[2], s) : tu \in TitleUrls, s \in Summaries}

\* Article.__eq__: two articles are equal when their ids are.
ArticleEq(a, b) == a.id = b.id

\* `article in self.articles`
Contains(list, a) == \E i \in 1..Len(list) : ArticleEq(list[i], a)

EmptyCollection == [articles |-> <<>>, total_count |-> 0]

CollectionInit ==
    /\ collection = EmptyCollection
    /\ cop = [op |-> "new", args |-> <<>>]

\* A plausible bug: add_article without the membership test.
AddArticleAlways(coll, a) ==
    [articles |-> Append(coll.articles, a),
     total_count |-> Len(coll.articles) + 1]

\* A plausible variant: add_article that overwrites the stored entry of the
\* same id with the new article.
AddArticleReplace(coll, a) ==
    IF ~ Contains(coll.articles, a)
    THEN [articles |-> Append(coll.articles, a),
          total_count |-> Len(coll.articles) + 1]
    ELSE [articles |-> [i \in 1..Len(coll.articles) |->
                           IF ArticleEq(coll.articles[i], a) THEN a
                           ELSE coll.articles[i]],
          total_count |-> coll.total_count]

\* A plausible bug: add_article that counts every call, also the call for an
\* article already held.
AddArticleCountsCalls(coll, a) ==
    IF ~ Contains(coll.articles, a)
    THEN [articles |-> Append(coll.articles, a),
          total_count |-> coll.total_count + 1]
    ELSE [coll EXCEPT !.total_count = @ + 1]

\* ArticleCollection.add_article
add_article(coll, a) ==
    IF ~ Contains(coll.articles, a)
    THEN [articles |-> Append(coll.articles, a),
          total_count |-> Len(coll.articles) + 1]
    ELSE coll

\* ArticleCollection.add_articles
RECURSIVE add_articles(_, _)
add_articles(coll, list) ==
    IF list = <<>> THEN coll
    ELSE add_articles(add_article(coll, Head(list)), Tail(list))

\* The loop of ArticleCollection.deduplicate: the first article of each id.
RECURSIVE UniqueArticles(_, _)
UniqueArticles(list, seen) ==
    IF list = <<>> THEN <<>>
    ELSE IF Head(list).id \notin seen
         THEN <<Head(list)>> \o UniqueArticles(Tail(list), seen \cup {Head(list).id})
         ELSE UniqueArticles(Tail(list), seen)

\* ArticleCollection.deduplicate
deduplicate(coll) ==
    LET unique_articles == UniqueArticles(coll.articles, {})
    IN  [articles |-> unique_articles, total_count |-> Len(unique_articles)]

Batches == UNION {[1..n -> ArticleUniverse] : n \in 0..MaxBatch}

CallAddArticle(a) ==
    /\ collection' = add_article(collection, a)
    /\ cop' = [op |-> "add_article", args |-> <<a>>]
    /\ UNCHANGED <<clock, throttleVars, fetchVars, runVars, partVars>>

CallAddArticles(list) ==
    /\ collection' = add_articles(collection, list)
    /\ cop' = [op |-> "add_articles", args |-> list]
    /\ UNCHANGED <<clock, throttleVars, fetchVars, runVars, partVars>>

CallDeduplicate ==
    /\ collection' = deduplicate(collection)
    /\ cop' = [op |-> "deduplicate", args |-> <<>>]
    /\ UNCHANGED <<clock, throttleVars, fetchVars, runVars, partVars>>

NextCollection ==
    \/ \E a \in ArticleUniverse : CallAddArticle(a)
    \/ \E list \in Batches : CallAddArticles(list)
    \/ CallDeduplicate

----------------------------------------------------------------------------
(* BaseScraper._fetch_page and scrape(), for scrapers run in sequence       *)

Scrapers == 1..NumScrapers

\* What one GET can do: answer 2xx, fail transiently (timeout, 5xx,
\* connection error), or answer a 4xx other than 429.
Outcomes == {"ok", "transient", "http4xx"}

NoFetch == [outcomes |-> <<>>, result |-> "none", scraper |-> 0]

NoRequest == [via |-> "none", throttled |-> FALSE, scraper |-> 0]

\* Source configurations: a base url on some domain, an optional feed, and
\* one listing page (the generic _scrape_html) or a list of section pages
\* (NPRScraper._scrape_html).
Configs == [domain : Domains, rss_feed : BOOLEAN, pages : {1, npr_sections}]

NoConfig == [domain |-> "a.example", rss_feed |-> FALSE, pages |-> 1]

FetchInit ==
    /\ fcfg = NoConfig
    /\ s_last_request = EmptyDict
    /\ fcur = 0
    /\ fpc = "new"
    /\ fpage = 1
    /\ fattempts = <<>>
    /\ fwake = 0
    /\ fthrottled = FALSE
    /\ requests = [d \in Domains |-> <<>>]
    /\ last_req = NoRequest
    /\ last_fetch = NoFetch

RECURSIVE Pow2(_)
Pow2(n) == IF n <= 0 THEN 1 ELSE 2 * Pow2(n - 1)

Min(a, b) == IF a < b THEN a ELSE b
Max(a, b) == IF a > b THEN a ELSE b

\* wait_exponential(multiplier=1, min=2, max=10) after the n-th attempt.
Backoff(n) == Max(wait_min, Min(wait_multiplier * Pow2(n - 1), wait_max))

\* A plausible bug: the failure is swallowed and None is returned (what the
\* docstring of _fetch_page announces).
AfterAttemptSwallow(outs) ==
    IF outs[Len(outs)] = "ok" THEN "return_text" ELSE "return_None"

\* What follows the attempt that produced the last outcome of `outs`:
\* _fetch_page returns response.text, or it re-raises and tenacity either
\* retries (any exception, fewer than stop_after_attempt attempts made) or
\* raises RetryError.
AfterAttempt(outs) ==
    IF outs[Len(outs)] = "ok" THEN "return_text"
    ELSE IF Len(outs) >= stop_after_attempt THEN "raise_RetryError"
    ELSE "retry"

\* A request is recorded: whether a throttle() call preceded it and, for a
\* GET of the session, the time it is issued at.
LogRequest(d, s, via) ==
    /\ last_req' = [via |-> via, throttled |-> fthrottled, scraper |-> s]
    /\ requests' = IF via = "session"
                   THEN [requests EXCEPT ![d] =
                            LastTwo(Append(@, [scraper |-> s, time |-> clock]))]
                   ELSE requests

\* scrape() of the current scraper returns; the loop of scrape_*_news goes on
\* to the next scraper.
ScrapeReturns ==
    /\ fpc' = "new"
    /\ fpage' = 1
    /\ UNCHANGED fcur

\* BaseScraper.__init__ for the next source of the table: the scraper gets a
\* DomainThrottler of its own, whose last_request is empty.
ScraperInit(cfg) ==
    /\ fpc = "new"
    /\ fcur < NumScrapers
    /\ fcur' = fcur + 1
    /\ fcfg' = cfg
    /\ s_last_request' = EmptyDict
    /\ fpc' = "start"
    /\ UNCHANGED <<runVars, partVars, clock, throttleVars, collectionVars, fpage, fattempts, fwake,
                   fthrottled, requests, last_req, last_fetch>>

\* _scrape_html calls _fetch_page for a listing page.
EnterFetchPage(page) ==
    /\ fpc' = "throttle"
    /\ fpage' = page
    /\ UNCHANGED fcur

\* scrape(): `if self.rss_feed` chooses between the feed and the HTML pages.
ScrapeBegin ==
    /\ fpc = "start"
    /\ IF fcfg.rss_feed
       THEN fpc' = "rss" /\ UNCHANGED <<fcur, fpage>>
       ELSE EnterFetchPage(1)
    /\ fattempts' = <<>>
    /\ UNCHANGED <<runVars, partVars, clock, throttleVars, collectionVars, fcfg, s_last_request,
                   fwake, fthrottled, requests, last_req, last_fetch>>

\* _scrape_rss: feedparser.parse(self.rss_feed) fetches the feed itself; the
\* feed yields articles or none (unreachable, empty, or no valid entry).
ScrapeRss(got_articles) ==
    /\ fpc = "rss"
    /\ LogRequest(fcfg.domain, fcur, "feedparser")
    /\ IF got_articles THEN ScrapeReturns ELSE EnterFetchPage(1)
    /\ fthrottled' = FALSE
    /\ UNCHANGED <<runVars, partVars, clock, throttleVars, collectionVars, fcfg, s_last_request,
                   fattempts, fwake, last_fetch>>

\* self.throttler.throttle(url) on the scraper's own throttler: it sleeps, or
\* records the time at once.
FetchThrottle ==
    /\ fpc = "throttle"
    /\ LET d == fcfg.domain
           w == ThrottleWait(s_last_request, d, default_delay, clock)
       IN  IF w > 0
           THEN /\ fpc' = "sleep"
                /\ fwake' = clock + w
                /\ UNCHANGED <<s_last_request, fthrottled>>
           ELSE /\ fpc' = "get"
                /\ s_last_request' = DictSet(s_last_request, d, clock)
                /\ fthrottled' = TRUE
                /\ UNCHANGED fwake
    /\ UNCHANGED <<runVars, partVars, clock, throttleVars, collectionVars, fcfg, fcur, fpage,
                   fattempts, requests, last_req, last_fetch>>

\* The sleep of throttle() ends and the time is recorded.
FetchThrottleWake ==
    /\ fpc = "sleep"
    /\ clock >= fwake
    /\ fpc' = "get"
    /\ s_last_request' = DictSet(s_last_request, fcfg.domain, clock)
    /\ fthrottled' = TRUE
    /\ UNCHANGED <<runVars, partVars, clock, throttleVars, collectionVars, fcfg, fcur, fpage,
                   fattempts, fwake, requests, last_req, last_fetch>>

\* The page's fetch is over (text returned, or RetryError caught by the
\* except of _scrape_html or of its section loop): next page, or return.
PageDone ==
    IF fpage < fcfg.pages
    THEN EnterFetchPage(fpage + 1)
    ELSE ScrapeReturns

\* self.session.get(...) and raise_for_status(), then what tenacity does
\* with the outcome.
FetchGet(o) ==
    /\ fpc = "get"
    /\ LogRequest(fcfg.domain, fcur, "session")
    /\ fthrottled' = FALSE
    /\ LET outs == Append(fattempts, o)
           after == AfterAttempt(outs)
       IN  IF after = "retry"
           THEN /\ fattempts' = outs
                /\ fpc' = "backoff"
                /\ fwake' = clock + Backoff(Len(outs))
                /\ UNCHANGED <<fcur, fpage, last_fetch>>
           ELSE /\ fattempts' = <<>>
                /\ last_fetch' = [outcomes |-> outs, scraper |-> fcur,
                                  result |-> IF after = "return_text" THEN "text"
                                             ELSE IF after = "raise_RetryError"
                                                  THEN "RetryError" ELSE "None"]
                /\ PageDone
                /\ UNCHANGED fwake
    /\ UNCHANGED <<runVars, partVars, clock, throttleVars, collectionVars, fcfg, s_last_request>>

\* tenacity's sleep between two attempts ends; _fetch_page is called again.
FetchBackoffEnd ==
    /\ fpc = "backoff"
    /\ clock >= fwake
    /\ fpc' = "throttle"
    /\ UNCHANGED <<runVars, partVars, clock, throttleVars, collectionVars, fcfg, s_last_request,
                   fcur, fpage, fattempts, fwake, fthrottled, requests,
                   last_req, last_fetch>>

FetchTick ==
    /\ clock < MaxFetchTime
    /\ clock' = clock + 1
    /\ UNCHANGED <<throttleVars, collectionVars, fetchVars, runVars, partVars>>

NextFetch ==
    \/ FetchTick
    \/ \E cfg \in Configs : ScraperInit(cfg)
    \/ ScrapeBegin
    \/ \E got \in BOOLEAN : ScrapeRss(got)
    \/ FetchThrottle
    \/ FetchThrottleWake
    \/ \E o \in Outcomes : FetchGet(o)
    \/ FetchBackoffEnd

----------------------------------------------------------------------------
(* scrape(): what one scraper returns for the remote content it finds       *)

\* A url is a sequence of tokens: an absolute one is <<scheme, host, path>>,
\* a relative one is <<path>>, and <<>> is a missing link.
Schemes == {"http://", "https://"}

\* The path tokens is_valid_article_url excludes (/tag/, /category/, ...).
ExcludedPaths == {"/tag/"}

\* validators.validate_url: a scheme and a host.
validate_url(url) == Len(url) >= 2 /\ url[1] \in Schemes

\* validators.is_valid_article_url(url, base_domain): the host of the url
\* has the host of base_domain in it (no host of the model is part of
\* another), and no excluded pattern occurs.
is_valid_article_url(url, base_domain) ==
    /\ validate_url(url)
    /\ url[2] = base_domain[2]
    /\ \A i \in 1..Len(url) : url[i] \notin ExcludedPaths

\* urllib.parse.urljoin(base_url, url) for a relative url.
urljoin(base_url, url) == base_url \o url

\* validators.normalize_url: None (<<>>) for no url, relative urls joined to
\* base_url, http:// replaced by https://.
normalize_url(url, base_url) ==
    IF url = <<>> THEN <<>>
    ELSE LET absolute == IF Head(url) \notin Schemes
                         THEN urljoin(base_url, url) ELSE url
         IN  IF Head(absolute) = "http://"
             THEN <<"https://">> \o Tail(absolute)
             ELSE absolute

\* validators.clean_text on the titles of the model: whitespace runs are
\* collapsed and the ends stripped (no boilerplate pattern or HTML entity
\* occurs in them).
clean_text(text) == clean_title(text)

\* An entry of a feed or an article container of a page: its title, its
\* link as given, its summary, and whether reading one of its other fields
\* raises (a date or an enclosure of an unexpected shape).
Item(title, url, summary, broken) ==
    [title |-> title, url |-> url, summary |-> summary, broken |-> broken]

\* The entries a source with this base url serves in the runs of the
\* orchestrator: two versions of one article, another article, and an entry
\* without title.
RawItems(base_url) ==
    {Item(<<"t">>, base_url \o <<"p">>, "s1", FALSE),
     Item(<<"t">>, base_url \o <<"p">>, "s2", FALSE),
     Item(<<"x", "t">>, base_url \o <<"p">>, "s1", FALSE),
     Item(<<>>, base_url \o <<"p">>, "s1", FALSE)}

ItemLists(items) == UNION {[1..n -> items] : n \in 0..MaxItems}

\* The remote side at the time of one scrape(): the feed (reachable or not,
\* with its entries) and the page(s) _scrape_html fetches (fetched or not,
\* with the containers selected).
World(rss_ok, rss, html_ok, html) ==
    [rss_ok |-> rss_ok, rss |-> rss, html_ok |-> html_ok, html |-> html]

Worlds(base_url) ==
    {World(TRUE, rss, TRUE, html) :
        rss \in ItemLists(RawItems(base_url)), html \in ItemLists(RawItems(base_url))}
    \cup {World(FALSE, <<>>, TRUE, html) : html \in ItemLists(RawItems(base_url))}
    \cup {World(TRUE, rss, FALSE, <<>>) : rss \in ItemLists(RawItems(base_url))}
    \cup {World(FALSE, <<>>, FALSE, <<>>)}

None == [none |-> TRUE]

\* An exception leaving the function.
Raise == [raise |-> TRUE]

\* BaseScraper._create_article: None without title or url or for a url that
\* is not a valid article url of the source, else the Article.
create_article(item, base_url) ==
    IF item.title = <<>> \/ item.url = <<>>
    THEN None
    ELSE IF ~ is_valid_article_url(item.url, base_url)
    THEN None
    ELSE MakeArticle(item.title, item.url, item.summary)

\* The try block of _parse_rss_entry: the title is cleaned, the link is
\* taken as it is.
RssEntryBody(entry, base_url) ==
    IF entry.broken THEN Raise
    ELSE create_article(Item(clean_text(entry.title), entry.url, entry.summary, FALSE),
                        base_url)

\* The try block of _parse_article_element: the title is cleaned, the link
\* goes through normalize_url (_extract_link).
ElementBody(element, base_url) ==
    IF element.broken THEN Raise
    ELSE LET title == clean_text(element.title)
             url == normalize_url(element.url, base_url)
         IN  IF title = <<>> \/ url = <<>>
             THEN None
             ELSE create_article(Item(title, url, element.summary, FALSE), base_url)

\* The try block of the parse function of the step: _parse_rss_entry for
\* the RSS step, _parse_article_element for the HTML step.
ParseBody(mode, item, base_url) ==
    IF mode = "rss" THEN RssEntryBody(item, base_url) ELSE ElementBody(item, base_url)

\* The parse function without its except clause: an exception of the try
\* block leaves it.
ParseOneUncaught(mode, item, base_url) == ParseBody(mode, item, base_url)

\* _parse_rss_entry / _parse_article_element: an exception of the try block
\* is logged and None is returned.
ParseOne(mode, item, base_url) ==
    LET r == ParseBody(mode, item, base_url)
    IN  IF r = Raise THEN None ELSE r

\* The loops of _scrape_rss / _scrape_html: the articles of the entries
\* that yield one, in order; an exception reaching the loop ends it (the
\* except clause around the loop) with the articles collected so far.
ParseItems(mode, items, base_url) ==
    LET parsed == [i \in 1..Len(items) |-> ParseOne(mode, items[i], base_url)]
        raised == {i \in 1..Len(items) : parsed[i] = Raise}
        done == IF raised = {} THEN Len(items)
                ELSE (CHOOSE i \in raised : \A j \in raised : i <= j) - 1
        IsArticle(r) == r # None
    IN  SelectSeq(SubSeq(parsed, 1, done), IsArticle)

\* KenyaScraper._scrape_rss: any failure is logged and yields no article.
scrape_rss(cfg, w) == IF w.rss_ok THEN ParseItems("rss", w.rss, cfg.url) ELSE <<>>

\* list[:n]
Take(list, n) == IF Len(list) <= n THEN list ELSE SubSeq(list, 1, n)

\* KenyaScraper._scrape_html: the first article_list_limit containers are
\* parsed; any failure is logged and yields no article.
scrape_html(cfg, w) ==
    IF w.html_ok
    THEN ParseItems("html", Take(w.html, article_list_limit), cfg.url)
    ELSE <<>>

\* scrape(), step 1: the articles of the feed, if one is configured.
RssStep(cfg, w) == IF cfg.rss_feed THEN scrape_rss(cfg, w) ELSE <<>>

\* A plausible bug: the HTML step runs whatever the feed gave.
HtmlStepRunsAlways(cfg, w) == TRUE

\* A reading of the fallback rule: HTML only when the feed has no entry.
HtmlStepRunsOnNoEntries(cfg, w) == ~ (cfg.rss_feed /\ w.rss_ok /\ w.rss # <<>>)

\* scrape(), `if not articles`: _scrape_html is called.
HtmlStepRuns(cfg, w) == RssStep(cfg, w) = <<>>

\* A plausible bug: scrape() without the final slice.
ScrapeUntruncated(cfg, w) ==
    IF HtmlStepRuns(cfg, w) THEN scrape_html(cfg, w) ELSE RssStep(cfg, w)

\* KenyaScraper.scrape / USAScraper.scrape
scrape(cfg, w) ==
    LET articles == IF HtmlStepRuns(cfg, w) THEN scrape_html(cfg, w)
                    ELSE RssStep(cfg, w)
    IN  Take(articles, max_articles_per_source)

\* Every fetch this scrape() made failed.
FetchFailed(cfg, w) == (cfg.rss_feed => ~ w.rss_ok) /\ ~ w.html_ok

----------------------------------------------------------------------------
(* NewsScraper: scrape_all, scrape_region, scrape_source                    *)

KENYA_SOURCES ==
    <<[name |-> "Nation Africa", url |-> <<"https://", "nation.africa">>,
       rss_feed |-> TRUE, enabled |-> TRUE],
      [name |-> "Capital FM", url |-> <<"https://", "capitalfm.co.ke">>,
       rss_feed |-> FALSE, enabled |-> TRUE]>>

\* NPR stands for a source whose descriptor was set to enabled = False.
USA_SOURCES ==
    <<[name |-> "CNN", url |-> <<"https://", "cnn.com">>,
       rss_feed |-> TRUE, enabled |-> TRUE],
      [name |-> "NPR", url |-> <<"https://", "npr.org">>,
       rss_feed |-> TRUE, enabled |-> FALSE]>>

ALL_SOURCES == [kenya |-> KENYA_SOURCES, usa |-> USA_SOURCES]

Regions == <<"kenya", "usa">>

SourcesOf(region) == ALL_SOURCES[region]

\* str.lower() on the arguments of the model.
Lower(str) ==
    CASE str = "KENYA" -> "kenya"
      [] str = "Nation Africa" -> "nation africa"
      [] str = "Capital FM" -> "capital fm"
      [] str = "CNN" -> "cnn"
      [] str = "NPR" -> "npr"
      [] str = "USA" -> "usa"
      [] OTHER -> str

RegionArgs == {"kenya", "usa", "KENYA", "mars"}

SourceArgs == {"Nation Africa", "capital fm", "CNN", "NPR", "BBC"}

\* create_kenya_scrapers / create_usa_scrapers: the class chosen by name.
ScraperClass(region, cfg) ==
    IF region = "kenya"
    THEN IF cfg.name = "Nation Africa" THEN "NationAfricaScraper" ELSE "KenyaScraper"
    ELSE IF cfg.name = "CNN" THEN "CNNScraper"
    ELSE IF cfg.name = "NPR" THEN "NPRScraper" ELSE "USAScraper"

\* scrape_source: the generic class of the region.
GenericClass(region) == IF region = "kenya" THEN "KenyaScraper" ELSE "USAScraper"

\* scrape_source: the (region, index) pairs whose name matches; the loop
\* keeps the last match.
SourceMatches(source_name) ==
    {<<r, i>> \in (1..Len(Regions)) \X (1..2) :
        /\ i <= Len(SourcesOf(Regions[r]))
        /\ Lower(SourcesOf(Regions[r])[i].name) = Lower(source_name)}

NoOp == [name |-> "none", arg |-> ""]

NoResult == [returned |-> FALSE, articles |-> <<>>]

Returned(list) == [returned |-> TRUE, articles |-> list]

EmptyHist ==
    [pre |-> <<>>,          \* collection.articles when the operation began
     scraped |-> <<>>,      \* names of the sources whose scrape() was called
     obtained |-> <<>>,     \* what each of these scrape() calls returned
     fetch_failed |-> {},   \* sources all of whose fetches failed
     scrape_raised |-> {},  \* sources whose scrape() raised
     init_raised |-> {},    \* sources whose scraper could not be created
     collected |-> FALSE]   \* the add-then-deduplicate pass ran

\* NewsScraper.__init__, followed by earlier use of the instance that left
\* some articles in its collection.
PriorCollections ==
    {EmptyCollection,
     add_article(EmptyCollection,
                 MakeArticle(<<"t">>, <<"https://", "nation.africa", "p">>, "s2"))}

\* NewsScraper.__init__: self.stats.
NewStats ==
    [total_articles |-> 0, by_region |-> EmptyDict, by_source |-> EmptyDict,
     errors |-> <<>>]

RunInit ==
    /\ stats = NewStats
    /\ op = NoOp
    /\ opc = "idle"
    /\ oregion = ""
    /\ oidx = 0
    /\ scrapers = <<>>
    /\ sidx = 0
    /\ region_articles = <<>>
    /\ all_articles = <<>>
    /\ oresult = NoResult
    /\ escaped = FALSE
    /\ hist = EmptyHist

\* Entering scrape_kenya_news() / scrape_usa_news().
EnterRegion(region) ==
    /\ oregion' = region
    /\ oidx' = 1
    /\ scrapers' = <<>>
    /\ sidx' = 1
    /\ region_articles' = <<>>
    /\ opc' = "create"

\* NewsScraper.scrape_all up to the first scrape_*_news() call.
CallScrapeAll ==
    /\ opc = "idle"
    /\ op' = [name |-> "scrape_all", arg |-> ""]
    /\ all_articles' = <<>>
    /\ hist' = [hist EXCEPT !.pre = collection.articles]
    /\ EnterRegion(Regions[1])
    /\ UNCHANGED <<stats, oresult, escaped, clock, throttleVars, collectionVars,
                   fetchVars, partVars>>

\* scrape_region without the test of the region: an unknown region is
\* treated as one without sources, whose empty list is added and counted.
CallScrapeRegionUnchecked(region) ==
    /\ opc = "idle"
    /\ op' = [name |-> "scrape_region", arg |-> region]
    /\ hist' = [hist EXCEPT !.pre = collection.articles]
    /\ IF Lower(region) \in {"kenya", "usa"}
       THEN /\ EnterRegion(Lower(region))
            /\ UNCHANGED <<stats, oresult, all_articles, escaped, clock,
                           throttleVars, collectionVars, fetchVars, partVars>>
       ELSE /\ opc' = "done"
            /\ oresult' = Returned(<<>>)
            /\ stats' = [stats EXCEPT !.by_region = DictSet(@, region, 0)]
            /\ UNCHANGED <<oregion, oidx, scrapers, sidx, region_articles,
                           all_articles, escaped, clock, throttleVars,
                           collectionVars, fetchVars, partVars>>

\* NewsScraper.scrape_region up to the scrape_*_news() call, or its return
\* of [] for an unknown region.
CallScrapeRegion(region) ==
    /\ opc = "idle"
    /\ op' = [name |-> "scrape_region", arg |-> region]
    /\ hist' = [hist EXCEPT !.pre = collection.articles]
    /\ IF Lower(region) \in {"kenya", "usa"}
       THEN /\ EnterRegion(Lower(region))
            /\ UNCHANGED oresult
       ELSE /\ opc' = "done"
            /\ oresult' = Returned(<<>>)
            /\ UNCHANGED <<oregion, oidx, scrapers, sidx, region_articles>>
    /\ UNCHANGED <<stats, all_articles, escaped, clock, throttleVars,
                   collectionVars, fetchVars, partVars>>

\* NewsScraper.scrape_source up to the creation of the scraper, or its
\* return of [] for an unknown name.
CallScrapeSource(source_name) ==
    /\ opc = "idle"
    /\ op' = [name |-> "scrape_source", arg |-> source_name]
    /\ hist' = [hist EXCEPT !.pre = collection.articles]
    /\ LET found == SourceMatches(source_name)
       IN  IF found # {}
           THEN LET m == CHOOSE x \in found :
                            \A y \in found : y[1] < x[1] \/ (y[1] = x[1] /\ y[2] <= x[2])
                IN  /\ oregion' = Regions[m[1]]
                    /\ oidx' = m[2]
                    /\ scrapers' = <<>>
                    /\ sidx' = 1
                    /\ region_articles' = <<>>
                    /\ opc' = "create"
                    /\ UNCHANGED oresult
           ELSE /\ opc' = "done"
                /\ oresult' = Returned(<<>>)
                /\ UNCHANGED <<oregion, oidx, scrapers, sidx, region_articles>>
    /\ UNCHANGED <<stats, all_articles, escaped, clock, throttleVars,
                   collectionVars, fetchVars, partVars>>

\* One iteration of the loop of create_*_scrapers (or the one constructor
\* call of scrape_source).  BaseScraper.__init__ may raise; the exception
\* leaves create_*_scrapers and scrape_*_news, is caught by the except clause
\* of scrape_all, and is not caught in scrape_region or scrape_source.
Instantiate(raises) ==
    /\ opc = "create"
    /\ oidx <= Len(SourcesOf(oregion))
    /\ LET cfg == SourcesOf(oregion)[oidx]
           cls == IF op.name = "scrape_source"
                  THEN GenericClass(oregion) ELSE ScraperClass(oregion, cfg)
       IN  IF op.name # "scrape_source" /\ ~ cfg.enabled
           THEN /\ ~ raises
                /\ oidx' = oidx + 1
                /\ UNCHANGED <<scrapers, opc, stats, oresult, escaped, hist>>
           ELSE IF ~ raises
           THEN /\ scrapers' = Append(scrapers, [name |-> cfg.name, class |-> cls,
                                                 config |-> cfg])
                /\ oidx' = IF op.name = "scrape_source"
                           THEN Len(SourcesOf(oregion)) + 1 ELSE oidx + 1
                /\ UNCHANGED <<opc, stats, oresult, escaped, hist>>
           ELSE /\ hist' = [hist EXCEPT !.init_raised = @ \cup {cfg.name}]
                /\ opc' = "done"
                /\ IF op.name = "scrape_all"
                   THEN /\ stats' = [stats EXCEPT !.errors = Append(@, cfg.name)]
                        /\ oresult' = Returned(collection.articles)
                        /\ UNCHANGED escaped
                   ELSE /\ escaped' = TRUE
                        /\ UNCHANGED <<stats, oresult>>
                /\ UNCHANGED <<scrapers, oidx>>
    /\ UNCHANGED <<op, oregion, sidx, region_articles, all_articles, clock,
                   throttleVars, collectionVars, fetchVars, partVars>>

\* create_*_scrapers returns: the loop over the scrapers begins.
ScrapersCreated ==
    /\ opc = "create"
    /\ oidx > Len(SourcesOf(oregion))
    /\ opc' = "scrape"
    /\ UNCHANGED <<stats, op, oregion, oidx, scrapers, sidx, region_articles,
                   all_articles, oresult, escaped, hist, clock, throttleVars,
                   collectionVars, fetchVars, partVars>>

\* The base urls of the configured sources.
SourceUrls ==
    UNION {{SourcesOf(Regions[r])[i].url : i \in 1..Len(SourcesOf(Regions[r]))} :
              r \in 1..Len(Regions)}

\* What each source can serve.
WorldsOf == [u \in SourceUrls |-> Worlds(u)]

\* What the scraper about to run can find on the remote side.
CurrentWorlds ==
    IF opc = "scrape" /\ sidx <= Len(scrapers)
    THEN WorldsOf[scrapers[sidx].config.url]
    ELSE {}

\* One iteration of the loop of scrape_*_news: scraper.scrape() returns its
\* articles for the remote content w.
ScrapeOne(w) ==
    /\ opc = "scrape"
    /\ op.name # "scrape_source"
    /\ sidx <= Len(scrapers)
    /\ LET scraper == scrapers[sidx]
           articles == scrape(scraper.config, w)
       IN  /\ region_articles' = region_articles \o articles
           /\ hist' = [hist EXCEPT
                          !.scraped = Append(@, scraper.name),
                          !.obtained = Append(@, articles),
                          !.fetch_failed =
                              IF FetchFailed(scraper.config, w)
                              THEN @ \cup {scraper.name} ELSE @]
    /\ sidx' = sidx + 1
    /\ UNCHANGED <<stats, op, opc, oregion, oidx, scrapers, all_articles, oresult,
                   escaped, clock, throttleVars, collectionVars, fetchVars, partVars>>

\* One iteration of the loop of scrape_*_news in which scraper.scrape()
\* raises: the except clause logs the error and the loop goes on.
ScrapeOneRaises ==
    /\ opc = "scrape"
    /\ op.name # "scrape_source"
    /\ sidx <= Len(scrapers)
    /\ hist' = [hist EXCEPT !.scraped = Append(@, scrapers[sidx].name),
                            !.obtained = Append(@, <<>>),
                            !.scrape_raised = @ \cup {scrapers[sidx].name}]
    /\ sidx' = sidx + 1
    /\ UNCHANGED <<stats, op, opc, oregion, oidx, scrapers, region_articles,
                   all_articles, oresult, escaped, clock, throttleVars,
                   collectionVars, fetchVars, partVars>>

\* A plausible bug: the add-and-deduplicate pass starts as soon as the first
\* region has returned.
RegionReturnAllEarly ==
    /\ opc = "scrape"
    /\ op.name = "scrape_all"
    /\ sidx > Len(scrapers)
    /\ all_articles' = all_articles \o region_articles
    /\ stats' = [stats EXCEPT
                    !.by_region = DictSet(@, oregion, Len(region_articles))]
    /\ opc' = "collect"
    /\ UNCHANGED <<oregion, oidx, scrapers, sidx, region_articles, op, oresult,
                   escaped, hist, clock, throttleVars, collectionVars, fetchVars,
                   partVars>>

\* scrape_*_news returns to scrape_all: the region's articles are appended
\* and counted, and the next region follows.
RegionReturnAll ==
    /\ opc = "scrape"
    /\ op.name = "scrape_all"
    /\ sidx > Len(scrapers)
    /\ all_articles' = all_articles \o region_articles
    /\ stats' = [stats EXCEPT
                    !.by_region = DictSet(@, oregion, Len(region_articles))]
    /\ IF oregion = Regions[1]
       THEN EnterRegion(Regions[2])
       ELSE /\ opc' = "collect"
            /\ UNCHANGED <<oregion, oidx, scrapers, sidx, region_articles>>
    /\ UNCHANGED <<op, oresult, escaped, hist, clock, throttleVars,
                   collectionVars, fetchVars, partVars>>

\* scrape_all, after both regions: add_articles, deduplicate, the total,
\* and the return of the collection's articles.
Collect ==
    /\ opc = "collect"
    /\ LET coll == deduplicate(add_articles(collection, all_articles))
       IN  /\ collection' = coll
           /\ stats' = [stats EXCEPT !.total_articles = coll.total_count]
           /\ oresult' = Returned(coll.articles)
    /\ hist' = [hist EXCEPT !.collected = TRUE]
    /\ opc' = "done"
    /\ UNCHANGED <<cop, op, oregion, oidx, scrapers, sidx, region_articles,
                   all_articles, escaped, clock, throttleVars, fetchVars, partVars>>

\* scrape_*_news returns to scrape_region: the articles are added to the
\* collection, counted under the region as given, and returned.
RegionReturnRegion ==
    /\ opc = "scrape"
    /\ op.name = "scrape_region"
    /\ sidx > Len(scrapers)
    /\ collection' = add_articles(collection, region_articles)
    /\ stats' = [stats EXCEPT
                    !.by_region = DictSet(@, op.arg, Len(region_articles))]
    /\ oresult' = Returned(region_articles)
    /\ opc' = "done"
    /\ UNCHANGED <<cop, op, oregion, oidx, scrapers, sidx, region_articles,
                   all_articles, escaped, hist, clock, throttleVars, fetchVars, partVars>>

\* scrape_source: scraper.scrape(), add_articles, return.
ScrapeSourceRun(w) ==
    /\ opc = "scrape"
    /\ op.name = "scrape_source"
    /\ LET scraper == scrapers[1]
           articles == scrape(scraper.config, w)
       IN  /\ collection' = add_articles(collection, articles)
           /\ oresult' = Returned(articles)
           /\ hist' = [hist EXCEPT
                          !.scraped = Append(@, scraper.name),
                          !.obtained = Append(@, articles),
                          !.fetch_failed =
                              IF FetchFailed(scraper.config, w)
                              THEN @ \cup {scraper.name} ELSE @]
    /\ opc' = "done"
    /\ UNCHANGED <<cop, stats, op, oregion, oidx, scrapers, sidx, region_articles,
                   all_articles, escaped, clock, throttleVars, fetchVars, partVars>>

\* scrape_source: scraper.scrape() raises and nothing catches it.
ScrapeSourceRaises ==
    /\ opc = "scrape"
    /\ op.name = "scrape_source"
    /\ hist' = [hist EXCEPT !.scraped = Append(@, scrapers[1].name),
                            !.obtained = Append(@, <<>>),
                            !.scrape_raised = @ \cup {scrapers[1].name}]
    /\ escaped' = TRUE
    /\ opc' = "done"
    /\ UNCHANGED <<stats, op, oregion, oidx, scrapers, sidx, region_articles,
                   all_articles, oresult, clock, throttleVars, collectionVars,
                   fetchVars, partVars>>

Next ==
    \/ CallScrapeAll
    \/ \E region \in RegionArgs : CallScrapeRegion(region)
    \/ \E source_name \in SourceArgs : CallScrapeSource(source_name)
    \/ \E raises \in BOOLEAN : Instantiate(raises)
    \/ ScrapersCreated
    \/ \E w \in CurrentWorlds : ScrapeOne(w)
    \/ ScrapeOneRaises
    \/ RegionReturnAll
    \/ Collect
    \/ RegionReturnRegion
    \/ \E w \in CurrentWorlds : ScrapeSourceRun(w)
    \/ ScrapeSourceRaises

----------------------------------------------------------------------------
(* Article(...): the constructor with its validators                        *)

\* No id passed to the constructor (None or '').
NoId == <<>>

valid_regions == {"kenya", "usa"}

RegionInputs == {"kenya", "KENYA", "usa", "invalid"}

\* Titles passed to the constructor: those of the collection's articles, an
\* empty one and a blank one.
CtorTitles == Titles \cup {<<>>, <<" ">>}

\* The keyword arguments of one Article(...) call.
CtorData ==
    [id : {NoId, <<"i">>}, title : CtorTitles, url : Urls, summary : Summaries,
     region : RegionInputs]

\* pydantic's ValidationError (a ValueError): no Article is constructed.
ValidationError == [ok |-> FALSE]

\* A plausible bug: validate_region that checks the lowercase form but
\* returns the region as given.
NewArticleKeepCase(data) ==
    IF Len(data.title) < title_min_length \/ Lower(data.region) \notin valid_regions
    THEN ValidationError
    ELSE LET a == MakeArticle(data.title, data.url, data.summary)
         IN  [ok |-> TRUE,
              id |-> IF data.id # NoId THEN data.id ELSE a.id,
              title |-> a.title, url |-> a.url, summary |-> a.summary,
              region |-> data.region]

\* Article.__init__: the field constraints and validators run (title of at
\* least title_min_length characters, then cleaned; region checked and
\* lowercased), then an id is generated unless one was passed.
NewArticle(data) ==
    IF Len(data.title) < title_min_length \/ Lower(data.region) \notin valid_regions
    THEN ValidationError
    ELSE LET a == MakeArticle(data.title, data.url, data.summary)
         IN  [ok |-> TRUE,
              id |-> IF data.id # NoId THEN data.id ELSE a.id,
              title |-> a.title, url |-> a.url, summary |-> a.summary,
              region |-> Lower(data.region)]

ArticleInit == built = <<>>

\* One Article(**data) call.
Construct(data) ==
    /\ built' = LastTwo(Append(built, [data |-> data, result |-> NewArticle(data)]))
    /\ UNCHANGED <<clock, throttleVars, collectionVars, fetchVars, runVars,
                   scrapeVars, sinkVars, utilVars>>

NextArticle == \E data \in CtorData : Construct(data)

----------------------------------------------------------------------------
(* One scraper's scrape() as a function of the remote content               *)

\* The scraper: a source with or without a feed.
ScrapeBase == <<"https://", "h">>

ScrapeConfigs == [url : {ScrapeBase}, rss_feed : BOOLEAN]

\* Entries and containers of every kind: two good ones, one with an http
\* link, one with a relative link, one of another host, one with an excluded
\* path, one without title, one without link, and one whose parsing raises.
ScrapeItems ==
    {Item(<<"t">>, <<"https://", "h", "p">>, "s1", FALSE),
     Item(<<"x", "t">>, <<"https://", "h", "p">>, "s1", FALSE),
     Item(<<"t">>, <<"http://", "h", "q">>, "s1", FALSE),
     Item(<<"t">>, <<"r">>, "s1", FALSE),
     Item(<<"t">>, <<"https://", "o", "p">>, "s1", FALSE),
     Item(<<"t">>, <<"https://", "h", "/tag/">>, "s1", FALSE),
     Item(<<>>, <<"https://", "h", "p">>, "s1", FALSE),
     Item(<<"t">>, <<>>, "s1", FALSE),
     Item(<<"t">>, <<"https://", "h", "p">>, "s1", TRUE)}

\* Short feeds and pages.
ShortWorlds ==
    {World(TRUE, rss, TRUE, html) :
        rss \in ItemLists(ScrapeItems),
        html \in {l \in ItemLists(ScrapeItems) : Len(l) <= 1}}
    \cup {World(TRUE, <<>>, TRUE, html) : html \in ItemLists(ScrapeItems)}
    \cup {World(FALSE, <<>>, TRUE, html) : html \in ItemLists(ScrapeItems)}
    \cup {World(TRUE, rss, FALSE, <<>>) : rss \in ItemLists(ScrapeItems)}
    \cup {World(FALSE, <<>>, FALSE, <<>>)}

\* The i-th of a long run of different entries; `bad` is the one whose
\* parsing raises (0: none).
LongEntry(i, bad) ==
    Item([j \in 1..i |-> "x"], <<"https://", "h", "p">>, "s1", i = bad)

LongList(n, bad) == [i \in 1..n |-> LongEntry(i, bad)]

\* Feeds around max_articles_per_source entries and pages around
\* article_list_limit containers.
LongWorlds ==
    {World(TRUE, LongList(n, bad), FALSE, <<>>) :
        n \in (max_articles_per_source - 1)..(max_articles_per_source + MaxExtra),
        bad \in {0, 1, 2}}
    \cup {World(FALSE, <<>>, TRUE, LongList(m, bad)) :
        m \in (article_list_limit - 1)..(article_list_limit + MaxExtra),
        bad \in {0, 1, 2}}

ScrapeWorlds == ShortWorlds \cup LongWorlds

NoScrape == [called |-> FALSE]

ScrapeInit == scrape_rec = NoScrape

\* One scrape() call of a scraper with config cfg that finds w.
DoScrape(cfg, w) ==
    /\ ~ scrape_rec.called
    /\ scrape_rec' = [called |-> TRUE, cfg |-> cfg, w |-> w,
                      rss_articles |-> RssStep(cfg, w),
                      html_ran |-> HtmlStepRuns(cfg, w),
                      html_articles |-> IF HtmlStepRuns(cfg, w)
                                        THEN scrape_html(cfg, w) ELSE <<>>,
                      result |-> scrape(cfg, w)]
    /\ UNCHANGED <<clock, throttleVars, collectionVars, fetchVars, runVars,
                   articleVars, sinkVars, utilVars>>

NextScrape == \E cfg \in ScrapeConfigs, w \in ScrapeWorlds : DoScrape(cfg, w)

----------------------------------------------------------------------------
(* SQLiteExporter.export                                                    *)

\* The articles handed to the exporter: re-scrapes of one article with a
\* changed summary, one url under two titles (two ids), and two urls under
\* one id.
SinkArticles ==
    {MakeArticle(<<"t">>, <<"u">>, "s1"), MakeArticle(<<"t">>, <<"u">>, "s2"),
     MakeArticle(<<"x", "t">>, <<"u">>, "s1"), MakeArticle(<<"t">>, <<"u", "x">>, "s1")}

SinkBatches == UNION {[1..n -> SinkArticles] : n \in 1..MaxBatch}

\* _article_to_tuple: the column values of the row, in the order of the
\* INSERT statement.
article_to_tuple(article) ==
    <<article.id, article.title, article.url, article.summary>>

\* The row made of the VALUES of the statement.
Row(t) == [id |-> t[1], title |-> t[2], url |-> t[3], summary |-> t[4]]

\* CREATE TABLE articles: id TEXT PRIMARY KEY, url TEXT NOT NULL UNIQUE.
PrimaryKeyConflict(table, row) == \E r \in table : r.id = row.id
UniqueUrlConflict(table, row) == \E r \in table : r.url = row.url

\* The outcome of one cursor.execute: the table after it and either the
\* rowcount or the exception.
Executed(table, rowcount) == [table |-> table, rowcount |-> rowcount, error |-> FALSE]
IntegrityError(table) == [table |-> table, rowcount |-> 0, error |-> TRUE]

\* A statement without a conflict clause.
InsertPlain(table, t) ==
    LET row == Row(t)
    IN  IF PrimaryKeyConflict(table, row) \/ UniqueUrlConflict(table, row)
        THEN IntegrityError(table)
        ELSE Executed(table \cup {row}, 1)

\* INSERT ... ON CONFLICT(id) DO UPDATE SET title = excluded.title,
\* summary = excluded.summary, ...: a row of that id keeps its url and takes
\* the listed columns; without one, a row of that url makes the statement
\* fail on the UNIQUE constraint; otherwise the row is inserted.
InsertOnConflictUpdate(table, t) ==
    LET row == Row(t)
    IN  IF PrimaryKeyConflict(table, row)
        THEN Executed({IF r.id = row.id
                       THEN [r EXCEPT !.title = row.title, !.summary = row.summary]
                       ELSE r : r \in table}, 1)
        ELSE IF UniqueUrlConflict(table, row)
             THEN IntegrityError(table)
             ELSE Executed(table \cup {row}, 1)

\* INSERT OR IGNORE: a row that conflicts on id or on url is skipped, and
\* rowcount is 0.
InsertOrIgnore(table, t) ==
    LET row == Row(t)
    IN  IF PrimaryKeyConflict(table, row) \/ UniqueUrlConflict(table, row)
        THEN Executed(table, 0)
        ELSE Executed(table \cup {row}, 1)

\* The body of the loop of export for one article: the statement is
\* executed and count grows by rowcount; an exception is printed and the
\* loop goes on.
ExportOne(acc, article, upsert) ==
    LET e == IF upsert
             THEN InsertOnConflictUpdate(acc.table, article_to_tuple(article))
             ELSE InsertOrIgnore(acc.table, article_to_tuple(article))
    IN  [table |-> e.table,
         count |-> IF e.error THEN acc.count ELSE acc.count + e.rowcount,
         errors |-> IF e.error THEN Append(acc.errors, article) ELSE acc.errors]

\* for article in articles: ...
RECURSIVE ExportLoop(_, _, _)
ExportLoop(acc, articles, upsert) ==
    IF articles = <<>> THEN acc
    ELSE ExportLoop(ExportOne(acc, Head(articles), upsert), Tail(articles), upsert)

NoExport == [called |-> FALSE]

\* SQLiteExporter(db_path) on a new file: _init_database creates an empty
\* articles table.
SinkInit ==
    /\ db = {}
    /\ export_rec = NoExport

\* SQLiteExporter.export(articles, upsert): the loop, then commit; the count
\* is returned.  export_rec keeps the table before the call and what the call
\* did.
Export(articles, upsert) ==
    LET out == ExportLoop([table |-> db, count |-> 0, errors |-> <<>>], articles, upsert)
    IN  /\ db' = out.table
        /\ export_rec' = [called |-> TRUE, articles |-> articles, upsert |-> upsert,
                          pre |-> db, count |-> out.count, errors |-> out.errors]
        /\ UNCHANGED <<clock, throttleVars, collectionVars, fetchVars, runVars,
                       articleVars, scrapeVars, utilVars>>

NextSink == \E articles \in SinkBatches, upsert \in BOOLEAN : Export(articles, upsert)

----------------------------------------------------------------------------
(* validators.clean_text                                                    *)

\* The texts cleaned: up to MaxText characters, letters and blanks.
Texts == UNION {[1..n -> {"a", " "}] : n \in 0..MaxText}

\* max_length: None, or a length.
NoLength == 0
MaxLengths == 0..MaxLength

\* text[:k] of Python: a negative k counts from the end.
SliceTo(text, k) ==
    IF k >= 0
    THEN SubSeq(text, 1, IF k <= Len(text) THEN k ELSE Len(text))
    ELSE SubSeq(text, 1, IF Len(text) + k >= 0 THEN Len(text) + k ELSE 0)

Ellipsis == <<".", ".", ".">>

\* clean_text(text, max_length): the text is cleaned, and a cleaned text
\* longer than a given max_length becomes text[:max_length - 3] + '...'.
clean_text_max(text, max_length) ==
    LET cleaned == clean_text(text)
    IN  IF max_length # NoLength /\ Len(cleaned) > max_length
        THEN SliceTo(cleaned, max_length - 3) \o Ellipsis
        ELSE cleaned

NoText == [called |-> FALSE]

TextInit == text_rec = NoText

\* One clean_text(text, max_length) call.
CallCleanText(text, max_length) ==
    /\ ~ text_rec.called
    /\ text_rec' = [called |-> TRUE, text |-> text, max_length |-> max_length,
                    cleaned |-> clean_text(text),
                    result |-> clean_text_max(text, max_length)]
    /\ UNCHANGED <<clock, throttleVars, collectionVars, fetchVars, runVars,
                   articleVars, scrapeVars, sinkVars, csvVars, limiterVars, dispatchVars>>

NextText == \E text \in Texts, max_length \in MaxLengths : CallCleanText(text, max_length)

----------------------------------------------------------------------------
(* CSVExporter.export                                                       *)

\* Category names: plain ones and one that holds the '|' character.
CategoryNames == {<<"c">>, <<"d">>, <<"c", "|", "d">>}

CategoryLists == UNION {[1..n -> CategoryNames] : n \in 0..MaxCategories}

\* The articles exported: an id and a categories list (the other columns are
\* written as they are).
CsvArticles == [id : {"i1", "i2"}, categories : CategoryLists]

CsvBatches == UNION {[1..n -> CsvArticles] : n \in 1..MaxBatch}

\* '|'.join(categories)
RECURSIVE JoinPipe(_)
JoinPipe(categories) ==
    IF categories = <<>> THEN <<>>
    ELSE IF Len(categories) = 1 THEN Head(categories)
    ELSE Head(categories) \o <<"|">> \o JoinPipe(Tail(categories))

\* CSVExporter._article_to_row: the columns of the model.
article_to_row(article) ==
    [id |-> article.id, categories |-> JoinPipe(article.categories)]

NoCsv == [called |-> FALSE]

CsvInit == csv_rec = NoCsv

\* CSVExporter.export(articles, filename): one row per article, in order.
ExportCsv(articles) ==
    /\ ~ csv_rec.called
    /\ csv_rec' = [called |-> TRUE, articles |-> articles,
                   rows |-> [k \in 1..Len(articles) |-> article_to_row(articles[k])]]
    /\ UNCHANGED <<clock, throttleVars, collectionVars, fetchVars, runVars,
                   articleVars, scrapeVars, sinkVars, textVars, limiterVars, dispatchVars>>

NextCsv == \E articles \in CsvBatches : ExportCsv(articles)

----------------------------------------------------------------------------
(* RateLimiter (token bucket)                                               *)

\* Levels are counted in parts of a token, token_parts to the token, so that
\* requests_per_second (0.5) is refill_per_second parts a second.
BurstLevel == burst_size * token_parts

\* RateLimiter.__init__: tokens and last_update are defaultdicts, filled at
\* the first use of a domain with burst_size and with the time of that use.
LimiterInit ==
    /\ rl_tokens = EmptyDict
    /\ rl_last_update = EmptyDict
    /\ rl_pc = [t \in Threads |-> "idle"]
    /\ rl_domain = [t \in Threads |-> "a.example"]
    /\ rl_wake = [t \in Threads |-> 0]
    /\ rl_calls = 0
    /\ rl_returns = [d \in Domains |-> [x \in 0..MaxTime |-> 0]]
    /\ rl_unpaid = 0

\* RateLimiter._refill_tokens: the level of the domain at time now.
RefilledLevel(d, now) ==
    LET time_passed == now - DictGet(rl_last_update, d, now)
        new_tokens == time_passed * refill_per_second
    IN  Min(BurstLevel, DictGet(rl_tokens, d, BurstLevel) + new_tokens)

\* acquire: the time to wait for a level below one token.
WaitTime(level) == (token_parts - level) \div refill_per_second

\* wait() returns for domain d at the time of the clock.
Admitted(d) == [rl_returns EXCEPT ![d][clock] = @ + 1]

\* RateLimiter.wait(url) up to its return or its sleep: acquire refills the
\* bucket under the lock; with a token in it, the token is taken and wait
\* returns; otherwise the wait time is computed, nothing is taken, and the
\* caller sleeps.
LimiterWait(t, d) ==
    /\ rl_pc[t] = "idle"
    /\ rl_calls < MaxWaits
    /\ rl_calls' = rl_calls + 1
    /\ rl_domain' = [rl_domain EXCEPT ![t] = d]
    /\ rl_last_update' = DictSet(rl_last_update, d, clock)
    /\ LET level == RefilledLevel(d, clock)
       IN  IF level >= token_parts
           THEN /\ rl_tokens' = DictSet(rl_tokens, d, level - token_parts)
                /\ rl_returns' = Admitted(d)
                /\ UNCHANGED <<rl_pc, rl_wake>>
           ELSE /\ rl_tokens' = DictSet(rl_tokens, d, level)
                /\ rl_pc' = [rl_pc EXCEPT ![t] = "sleep"]
                /\ rl_wake' = [rl_wake EXCEPT ![t] = clock + WaitTime(level)]
                /\ UNCHANGED rl_returns
    /\ UNCHANGED <<rl_unpaid, clock, throttleVars, collectionVars, fetchVars,
                   runVars, articleVars, scrapeVars, sinkVars, textVars, csvVars, dispatchVars>>

\* time.sleep(wait_time) ends, after at least the time asked for, and wait
\* returns.
LimiterWake(t) ==
    /\ rl_pc[t] = "sleep"
    /\ clock >= rl_wake[t]
    /\ rl_pc' = [rl_pc EXCEPT ![t] = "idle"]
    /\ rl_returns' = Admitted(rl_domain[t])
    /\ rl_unpaid' = rl_unpaid + 1
    /\ UNCHANGED <<rl_tokens, rl_last_update, rl_domain, rl_wake, rl_calls, clock,
                   throttleVars, collectionVars, fetchVars, runVars, articleVars,
                   scrapeVars, sinkVars, textVars, csvVars, dispatchVars>>

LimiterTick ==
    /\ Tick
    /\ UNCHANGED <<throttleVars, collectionVars, fetchVars, runVars, partVars>>

NextLimiter ==
    \/ LimiterTick
    \/ \E t \in Threads, d \in Domains : LimiterWait(t, d)
    \/ \E t \in Threads : LimiterWake(t)

----------------------------------------------------------------------------
(* One source under its specialised class and under the generic class       *)

\* What a site serves: its feed, the containers the selector of the config
\* finds on the home page, the containers the selectors written in the
\* specialised class find on the home page, and those they find on each
\* section page (none for a page that cannot be fetched).
SiteLists(base_url) ==
    {<<>>, <<Item(<<"t">>, base_url \o <<"p">>, "s1", FALSE)>>}

Sites(base_url) ==
    [rss_ok : BOOLEAN, rss : SiteLists(base_url),
     html_ok : BOOLEAN, html : SiteLists(base_url),
     own_html : SiteLists(base_url),
     sections : [1..nation_sections -> SiteLists(base_url)]]

\* The number of section pages a class with sections fetches.
SectionsOf(class) == IF class = "NPRScraper" THEN npr_sections ELSE nation_sections

\* The articles of the first n section pages, section_list_limit containers
\* of each.
RECURSIVE SectionArticles(_, _, _)
SectionArticles(cfg, site, n) ==
    IF n = 0 THEN <<>>
    ELSE SectionArticles(cfg, site, n - 1)
             \o ParseItems("html", Take(site.sections[n], section_list_limit), cfg.url)

\* _scrape_html of the class: NationAfricaScraper and NPRScraper go through
\* their section pages, CNNScraper reads the home page with its own
\* selectors, KenyaScraper and USAScraper read it with the selector of the
\* config.
scrape_html_of(class, cfg, site) ==
    IF class \in {"NationAfricaScraper", "NPRScraper"}
    THEN SectionArticles(cfg, site, SectionsOf(class))
    ELSE IF class = "CNNScraper"
    THEN IF site.html_ok
         THEN ParseItems("html", Take(site.own_html, article_list_limit), cfg.url)
         ELSE <<>>
    ELSE scrape_html(cfg, site)

\* scrape() of an instance of the class: the inherited scrape() with the
\* _scrape_html of the class.
scrape_of(class, cfg, site) ==
    LET articles == IF HtmlStepRuns(cfg, site) THEN scrape_html_of(class, cfg, site)
                    ELSE RssStep(cfg, site)
    IN  Take(articles, max_articles_per_source)

\* The (region, index) pairs of the enabled sources.
EnabledSources ==
    {m \in (1..Len(Regions)) \X (1..2) :
        /\ m[2] <= Len(SourcesOf(Regions[m[1]]))
        /\ SourcesOf(Regions[m[1]])[m[2]].enabled}

NoRun == [called |-> FALSE]

DispatchInit == run_rec = NoRun

\* The source m scraped on one site twice: by the scraper
\* create_*_scrapers makes for it (scrape_all, scrape_region), and by the
\* scraper scrape_source makes for it.
ScrapeBothWays(m, site) ==
    LET region == Regions[m[1]]
        cfg == SourcesOf(region)[m[2]]
    IN  /\ ~ run_rec.called
        /\ run_rec' = [called |-> TRUE, name |-> cfg.name, site |-> site,
                       full_class |-> ScraperClass(region, cfg),
                       source_class |-> GenericClass(region),
                       full_result |-> scrape_of(ScraperClass(region, cfg), cfg, site),
                       source_result |-> scrape_of(GenericClass(region), cfg, site)]
        /\ UNCHANGED <<clock, throttleVars, collectionVars, fetchVars, runVars,
                       articleVars, scrapeVars, sinkVars, textVars, csvVars,
                       limiterVars>>

NextDispatch ==
    \E m \in EnabledSources :
        \E site \in Sites(SourcesOf(Regions[m[1]])[m[2]].url) : ScrapeBothWays(m, site)

UtilInit ==
    /\ TextInit
    /\ CsvInit
    /\ LimiterInit
    /\ DispatchInit

----------------------------------------------------------------------------
(* Specifications                                                           *)

InitThrottle ==
    /\ clock = 0
    /\ ThrottlerInit
    /\ CollectionInit
    /\ FetchInit
    /\ RunInit
    /\ ArticleInit
    /\ ScrapeInit
    /\ SinkInit
    /\ UtilInit

SpecThrottle == InitThrottle /\ [][NextThrottle]_vars

InitCollection ==
    /\ clock = 0
    /\ ThrottlerInit
    /\ CollectionInit
    /\ FetchInit
    /\ RunInit
    /\ ArticleInit
    /\ ScrapeInit
    /\ SinkInit
    /\ UtilInit

InitFetch ==
    /\ clock = 0
    /\ ThrottlerInit
    /\ CollectionInit
    /\ FetchInit
    /\ RunInit
    /\ ArticleInit
    /\ ScrapeInit
    /\ SinkInit
    /\ UtilInit

SpecFetch == InitFetch /\ [][NextFetch]_vars

SpecCollection == InitCollection /\ [][NextCollection]_vars

InitArticle ==
    /\ clock = 0
    /\ ThrottlerInit
    /\ CollectionInit
    /\ FetchInit
    /\ RunInit
    /\ ArticleInit
    /\ ScrapeInit
    /\ SinkInit
    /\ UtilInit

SpecArticle == InitArticle /\ [][NextArticle]_vars

InitScrape ==
    /\ clock = 0
    /\ ThrottlerInit
    /\ CollectionInit
    /\ FetchInit
    /\ RunInit
    /\ ArticleInit
    /\ ScrapeInit
    /\ SinkInit
    /\ UtilInit

SpecScrape == InitScrape /\ [][NextScrape]_vars

InitSink ==
    /\ clock = 0
    /\ ThrottlerInit
    /\ CollectionInit
    /\ FetchInit
    /\ RunInit
    /\ ArticleInit
    /\ ScrapeInit
    /\ SinkInit
    /\ UtilInit

SpecSink == InitSink /\ [][NextSink]_vars

InitText ==
    /\ clock = 0
    /\ ThrottlerInit
    /\ CollectionInit
    /\ FetchInit
    /\ RunInit
    /\ ArticleInit
    /\ ScrapeInit
    /\ SinkInit
    /\ UtilInit

SpecAsyncThrottle == InitThrottle /\ [][NextAsyncThrottle]_vars

SpecText == InitText /\ [][NextText]_vars

InitDispatch ==
    /\ clock = 0
    /\ ThrottlerInit
    /\ CollectionInit
    /\ FetchInit
    /\ RunInit
    /\ ArticleInit
    /\ ScrapeInit
    /\ SinkInit
    /\ UtilInit

SpecDispatch == InitDispatch /\ [][NextDispatch]_vars

InitLimiter ==
    /\ clock = 0
    /\ ThrottlerInit
    /\ CollectionInit
    /\ FetchInit
    /\ RunInit
    /\ ArticleInit
    /\ ScrapeInit
    /\ SinkInit
    /\ UtilInit

SpecLimiter == InitLimiter /\ [][NextLimiter]_vars

InitCsv ==
    /\ clock = 0
    /\ ThrottlerInit
    /\ CollectionInit
    /\ FetchInit
    /\ RunInit
    /\ ArticleInit
    /\ ScrapeInit
    /\ SinkInit
    /\ UtilInit

SpecCsv == InitCsv /\ [][NextCsv]_vars

\* One NewsScraper, whose collection holds what earlier use left in it, and
\* one operation on it.
Init ==
    /\ clock = 0
    /\ ThrottlerInit
    /\ cop = [op |-> "new", args |-> <<>>]
    /\ collection \in PriorCollections
    /\ FetchInit
    /\ RunInit
    /\ ArticleInit
    /\ ScrapeInit
    /\ SinkInit
    /\ UtilInit

Spec == Init /\ [][Next]_vars

----------------------------------------------------------------------------
(* Claims about DomainThrottler.throttle                                    *)

\* The most recent returns of throttle() for domain d, oldest first.
ReturnsOf(d) == returns[d]

\* C1: for one DomainThrottler, under any interleaving of concurrent
\* throttle(url) callers, any two consecutive returns for one domain are at
\* least that domain's delay apart (the override if set, otherwise the
\* default), and the last-request time recorded for a domain is the time of
\* its most recent return.
C1_ThrottleSpacing ==
    \A d \in Domains :
        LET rs == ReturnsOf(d)
        IN  /\ \A i \in 1..(Len(rs) - 1) :
                  rs[i + 1].time - rs[i].time >= DelayOf(d)
            /\ (d \in DOMAIN last_request) <=> (Len(rs) > 0)
            /\ Len(rs) > 0 => last_request[d] = rs[Len(rs)].time

\* Two different threads have returned for the same domain, the second one
\* exactly one delay after the first (it had to sleep), with an override set.
C1_Witness ==
    \E d \in Domains :
        LET rs == ReturnsOf(d)
        IN  /\ Len(rs) >= 2
            /\ rs[1].thread # rs[2].thread
            /\ rs[2].time - rs[1].time = DelayOf(d)
            /\ d \in DOMAIN domain_delays

\* C3: a throttle(url) call for a domain whose own minimum spacing is already
\* satisfied is never delayed by another thread's in-progress throttle wait
\* on a different domain of the same DomainThrottler.
C3_NoCrossDomainDelay ==
    \A t \in Threads, u \in Threads :
        ~ /\ tpc[t] = "acquire"
          /\ ThrottleWait(last_request, tdomain[t], tdelay[t], clock) = 0
          /\ lock = u
          /\ tpc[u] = "sleep"
          /\ tdomain[u] # tdomain[t]
          /\ clock < twake[u]
          /\ ~ ENABLED ThrottleAcquire(t)

----------------------------------------------------------------------------
(* Claims about ArticleCollection                                           *)

NoDuplicateIds(list) ==
    \A i \in 1..Len(list), j \in 1..Len(list) : list[i].id = list[j].id => i = j

\* C9: after any sequence of add_article, add_articles and deduplicate calls
\* on an initially empty ArticleCollection no two entries have the same id,
\* and every article just added is represented by exactly one entry of its
\* id; in particular two articles with identical (url, title) and different
\* summaries leave one entry.
C9_NoDuplicateIds ==
    /\ NoDuplicateIds(collection.articles)
    /\ \A k \in 1..Len(cop.args) :
           Cardinality({i \in 1..Len(collection.articles) :
                           collection.articles[i].id = cop.args[k].id}) = 1

\* Two articles with the same (url, title) and different summaries were added
\* and the collection holds exactly one entry.
C9_Witness ==
    /\ cop.op = "add_article"
    /\ Len(collection.articles) = 1
    /\ collection.articles[1].url = cop.args[1].url
    /\ collection.articles[1].title = cop.args[1].title
    /\ collection.articles[1].summary # cop.args[1].summary

----------------------------------------------------------------------------
(* Claims about _fetch_page and the requests of scrape()                    *)

\* C2: when two configured sources share a domain, no two requests to that
\* domain coming from two different scraper instances are issued less than
\* the delay apart.
C2_SharedDomainSerialized ==
    \A d \in Domains :
        (Len(requests[d]) = 2 /\ requests[d][1].scraper # requests[d][2].scraper)
            => requests[d][2].time - requests[d][1].time >= default_delay

\* C4: every network request a scraper issues during scrape() (the feed
\* fetch, each listing or section page fetch, every retry) is preceded by a
\* throttle acquisition for its domain.
C4_EveryRequestThrottled ==
    last_req.via # "none" => last_req.throttled

C6_PermanentNotRetried ==
    /\ fattempts # <<>> => fattempts[1] # "http4xx"
    /\ (last_fetch # NoFetch /\ last_fetch.outcomes[1] = "http4xx") =>
           (Len(last_fetch.outcomes) = 1 /\ last_fetch.result = "RetryError")

----------------------------------------------------------------------------
(* Claims about NewsScraper                                                 *)

\* The articles all the scrape() calls of the run returned, in order.
RECURSIVE Flatten(_)
Flatten(lists) ==
    IF lists = <<>> THEN <<>> ELSE Head(lists) \o Flatten(Tail(lists))

Obtained == Flatten(hist.obtained)

\* The names of the enabled sources of a region.
EnabledNames(region) ==
    {SourcesOf(region)[i].name :
        i \in {j \in 1..Len(SourcesOf(region)) : SourcesOf(region)[j].enabled}}

Scraped == {hist.scraped[i] : i \in 1..Len(hist.scraped)}

\* C7: when exactly one source fails during fetch in a scrape_all run, the
\* run returns the articles of the other sources and stats['errors'] holds
\* exactly one entry.
C7_OneFailureOneError ==
    ( /\ opc = "done"
      /\ op.name = "scrape_all"
      /\ hist.init_raised = {}
      /\ hist.scrape_raised = {}
      /\ Cardinality(hist.fetch_failed) = 1 )
        => /\ oresult.returned
           /\ \A i \in 1..Len(Obtained) : Contains(oresult.articles, Obtained[i])
           /\ Len(stats.errors) = 1

\* C8: no exception raised while a source's scraper is instantiated or
\* while its scrape() runs propagates out of scrape_all or scrape_region, and
\* every other enabled source of the operation is still scraped and the
\* articles obtained are returned.
C8_IsolationBarrier ==
    ( /\ opc = "done"
      /\ \/ op.name = "scrape_all"
         \/ op.name = "scrape_region" /\ Lower(op.arg) \in {"kenya", "usa"} )
        => LET scope == IF op.name = "scrape_all"
                        THEN EnabledNames("kenya") \cup EnabledNames("usa")
                        ELSE EnabledNames(Lower(op.arg))
           IN  /\ ~ escaped
               /\ oresult.returned
               /\ \A name \in scope \ hist.init_raised : name \in Scraped
               /\ \A i \in 1..Len(Obtained) : Contains(oresult.articles, Obtained[i])

\* The positions of the articles of an id in a list.
PositionsOf(list, id) == {i \in 1..Len(list) : list[i].id = id}

FirstWith(list, id) ==
    list[CHOOSE i \in PositionsOf(list, id) : \A j \in PositionsOf(list, id) : i <= j]

LastWith(list, id) ==
    list[CHOOSE i \in PositionsOf(list, id) : \A j \in PositionsOf(list, id) : i >= j]

----------------------------------------------------------------------------
(* Claims about Article                                                     *)

\* C11: any two Articles constructed with the same url and the same title
\* have the same id, whatever their other constructor fields are.
C11_SameUrlTitleSameId ==
    \A i \in 1..Len(built), j \in 1..Len(built) :
        ( /\ built[i].result.ok
          /\ built[j].result.ok
          /\ built[i].data.url = built[j].data.url
          /\ built[i].data.title = built[j].data.title )
            => built[i].result.id = built[j].result.id

\* C20: Article construction accepts a region exactly when its lowercase
\* form is kenya or usa (the other fields being acceptable), and an accepted
\* region is stored in lowercase.
C20_RegionValidated ==
    \A i \in 1..Len(built) :
        LET data == built[i].data
            result == built[i].result
        IN  /\ data.title # <<>> =>
                   (result.ok <=> (\/ data.region \in {"kenya", "KENYA"}
                                   \/ data.region = "usa"))
            /\ result.ok => /\ result.region \in {"kenya", "usa"}
                            /\ data.region = "KENYA" => result.region = "kenya"

\* "KENYA" was accepted and stored as "kenya", and "invalid" was rejected.
C20_Witness ==
    /\ Len(built) = 2
    /\ built[1].data.region = "KENYA"
    /\ built[1].result.ok
    /\ built[1].result.region = "kenya"
    /\ built[2].data.region = "invalid"
    /\ built[2].data.title # <<>>
    /\ ~ built[2].result.ok

----------------------------------------------------------------------------
(* Claims about scrape()                                                    *)

\* The entries or containers scrape() examined in the step that gave its
\* result: every entry of the feed, or the leading article_list_limit
\* containers of the page.
Examined ==
    IF scrape_rec.html_ran
    THEN Take(scrape_rec.w.html, article_list_limit)
    ELSE scrape_rec.w.rss

StepMode == IF scrape_rec.html_ran THEN "html" ELSE "rss"

\* The articles of the items of a list that canonicalize successfully, in
\* the order of the list.
Successes(mode, items) ==
    LET parsed == [i \in 1..Len(items) |-> ParseBody(mode, items[i], ScrapeBase)]
        IsArticle(r) == r # None /\ r # Raise
    IN  SelectSeq(parsed, IsArticle)

\* Some item of the list fails to parse or to validate.
HasFailure(mode, items) ==
    \E k \in 1..Len(items) :
        LET r == ParseBody(mode, items[k], ScrapeBase)
        IN  r = None \/ r = Raise

\* C12: scrape() runs the HTML step exactly when the RSS step yields no
\* article (no feed configured, feed unreachable, or feed empty): with one
\* RSS article or more no page is fetched and the result is RSS articles,
\* with none the HTML step runs and gives the result.
C12_HtmlExactlyWhenNoRssArticle ==
    scrape_rec.called =>
        LET cfg == scrape_rec.cfg
            w == scrape_rec.w
        IN  /\ scrape_rec.html_ran <=> (scrape_rec.rss_articles = <<>>)
            /\ (~ cfg.rss_feed \/ ~ w.rss_ok \/ w.rss = <<>>) => scrape_rec.html_ran
            /\ scrape_rec.html_ran =>
                   scrape_rec.result = Take(scrape_rec.html_articles, max_articles_per_source)
            /\ ~ scrape_rec.html_ran =>
                   /\ scrape_rec.html_articles = <<>>
                   /\ scrape_rec.result = Take(scrape_rec.rss_articles, max_articles_per_source)

\* The feed gave an article and the page, which has a good container, was
\* not fetched.
C12_Witness ==
    /\ scrape_rec.called
    /\ scrape_rec.rss_articles # <<>>
    /\ ~ scrape_rec.html_ran
    /\ scrape_rec.w.html_ok
    /\ Successes("html", scrape_rec.w.html) # <<>>

\* C13 as stated: a feed that returns one entry or more, even if all of them
\* are malformed, wins: the HTML step is skipped.
C13_AnyEntryWins ==
    ( /\ scrape_rec.called
      /\ scrape_rec.cfg.rss_feed
      /\ scrape_rec.w.rss_ok
      /\ scrape_rec.w.rss # <<>> )
        => ~ scrape_rec.html_ran

\* C13, amended: a feed whose entries are all malformed yields no article,
\* so the HTML step runs and its articles are the result; the feed wins only
\* when one of its entries canonicalizes.
C13_MalformedFeedFallsBack ==
    ( /\ scrape_rec.called
      /\ scrape_rec.cfg.rss_feed
      /\ scrape_rec.w.rss_ok
      /\ scrape_rec.w.rss # <<>> )
        => /\ scrape_rec.html_ran <=> (Successes("rss", scrape_rec.w.rss) = <<>>)
           /\ Successes("rss", scrape_rec.w.rss) = <<>> =>
                  scrape_rec.result =
                      Take(Successes("html", Take(scrape_rec.w.html, article_list_limit)),
                           max_articles_per_source)

\* A feed of malformed entries only, and the article of the page returned.
C13_Witness ==
    /\ scrape_rec.called
    /\ scrape_rec.cfg.rss_feed
    /\ scrape_rec.w.rss_ok
    /\ scrape_rec.w.rss # <<>>
    /\ Successes("rss", scrape_rec.w.rss) = <<>>
    /\ scrape_rec.html_ran
    /\ scrape_rec.result # <<>>

\* The articles of the step that gave the result of scrape().
Produced ==
    IF scrape_rec.html_ran THEN scrape_rec.html_articles ELSE scrape_rec.rss_articles

\* C14: the list scrape() returns has at most max_articles_per_source
\* articles and is the leading part, in order, of the articles the RSS or
\* HTML step produced.
C14_TruncatedPrefix ==
    scrape_rec.called =>
        /\ Len(scrape_rec.result) <= max_articles_per_source
        /\ Len(scrape_rec.result) <= Len(Produced)
        /\ scrape_rec.result = SubSeq(Produced, 1, Len(scrape_rec.result))

\* The step produced more than max_articles_per_source articles and the
\* first max_articles_per_source of them were returned.
C14_Witness ==
    /\ scrape_rec.called
    /\ Len(Produced) > max_articles_per_source
    /\ Len(scrape_rec.result) = max_articles_per_source
    /\ scrape_rec.result[max_articles_per_source] = Produced[max_articles_per_source]

C19_HttpsUrls ==
    scrape_rec.called =>
        \A i \in 1..Len(scrape_rec.result) :
            scrape_rec.result[i].url[1] = "https://"

----------------------------------------------------------------------------
(* Claims about SQLiteExporter.export                                       *)

\* The ids of the rows of a table.
StoredIds(table) == {r.id : r \in table}

\* The last delivery of id i in a batch.
LatestDelivery(articles, i) ==
    articles[CHOOSE k \in 1..Len(articles) :
                /\ articles[k].id = i
                /\ \A m \in (k + 1)..Len(articles) : articles[m].id # i]

\* Every article of the batch is equal to a row stored before the call.
Redelivery ==
    /\ export_rec.called
    /\ export_rec.upsert
    /\ \A k \in 1..Len(export_rec.articles) :
           Row(article_to_tuple(export_rec.articles[k])) \in export_rec.pre

\* C16: the articles table never holds two rows of one id, and an upsert of
\* articles identical to stored rows counts every one of them, meets no
\* error and leaves the stored ids as they were.
C16_OneRowPerIdAndIdempotent ==
    /\ \A r1, r2 \in db : r1.id = r2.id => r1 = r2
    /\ Redelivery =>
           /\ export_rec.count = Len(export_rec.articles)
           /\ export_rec.errors = <<>>
           /\ StoredIds(db) = StoredIds(export_rec.pre)

\* An upsert re-delivered stored articles next to rows of other ids.
C16_Witness ==
    /\ Redelivery
    /\ Cardinality(export_rec.pre) >= 2
    /\ export_rec.count = Len(export_rec.articles)

\* C17: after an upsert of a batch every article of the batch is stored
\* under its id with the fields of its latest delivery.
C17_BatchStoredWithLatestFields ==
    (export_rec.called /\ export_rec.upsert) =>
        \A k \in 1..Len(export_rec.articles) :
            Row(article_to_tuple(LatestDelivery(export_rec.articles,
                                                export_rec.articles[k].id))) \in db

----------------------------------------------------------------------------
(* Claims about configuration errors of NewsScraper                         *)

\* The operation was scrape_region with a region that is neither kenya nor
\* usa, or scrape_source with a name that no source has.
ConfigurationError ==
    \/ op.name = "scrape_region" /\ Lower(op.arg) \notin {"kenya", "usa"}
    \/ op.name = "scrape_source" /\ SourceMatches(op.arg) = {}

\* C18: scrape_region with an unknown region and scrape_source with an
\* unknown name return an empty list without raising, create no scraper and
\* call no scrape() (fetches are issued only inside scrape(), so none is
\* issued), and leave the collection and the statistics as they were.
C18_ConfigurationErrorChangesNothing ==
    ConfigurationError =>
        /\ opc = "done"
        /\ oresult = Returned(<<>>)
        /\ ~ escaped
        /\ scrapers = <<>>
        /\ hist.scraped = <<>>
        /\ hist.fetch_failed = {}
        /\ collection.articles = hist.pre
        /\ stats = NewStats

\* scrape_region of an unknown region returned on a scraper whose collection
\* held an article.
C18_Witness ==
    /\ ConfigurationError
    /\ op.name = "scrape_region"
    /\ opc = "done"
    /\ collection.articles # <<>>

----------------------------------------------------------------------------
(* Claims about the counter of ArticleCollection                            *)

\* C28: on a collection that started empty, total_count is the number of
\* entries of articles after every add_article, add_articles and
\* deduplicate call.
C28_TotalCountIsLength == collection.total_count = Len(collection.articles)

\* An add_articles call whose batch held an article already in the
\* collection left two articles.
C28_Witness ==
    /\ cop.op = "add_articles"
    /\ Len(cop.args) = 2
    /\ cop.args[1].id = cop.args[2].id
    /\ Len(collection.articles) = 2
    /\ collection.total_count = 2

----------------------------------------------------------------------------
(* Claims about clean_text                                                  *)

\* C23: for every positive max_length the result of clean_text is at most
\* max_length long, and a cleaned text longer than max_length gives its
\* first max_length - 3 characters followed by "...", max_length characters
\* in all.
C23_ResultWithinMaxLength ==
    (text_rec.called /\ text_rec.max_length > 0) =>
        /\ Len(text_rec.result) <= text_rec.max_length
        /\ Len(text_rec.cleaned) > text_rec.max_length =>
               /\ text_rec.result =
                      SubSeq(text_rec.cleaned, 1, text_rec.max_length - 3) \o Ellipsis
               /\ Len(text_rec.result) = text_rec.max_length

----------------------------------------------------------------------------
(* Claims about CSVExporter.export                                          *)

\* The field up to the first '|', and what follows that '|'.
RECURSIVE UpToPipe(_)
UpToPipe(field) ==
    IF field = <<>> \/ Head(field) = "|" THEN <<>>
    ELSE <<Head(field)>> \o UpToPipe(Tail(field))

\* field.split('|') if field else []: the reading of a categories column
\* that undoes the join.
RECURSIVE SplitPipe(_)
SplitPipe(field) ==
    LET first == UpToPipe(field)
    IN  IF Len(first) = Len(field) THEN <<first>>
        ELSE <<first>> \o SplitPipe(SubSeq(field, Len(first) + 2, Len(field)))

ParseCategories(field) == IF field = <<>> THEN <<>> ELSE SplitPipe(field)

\* C22: re-parsing the exported rows gives, for every article, its id and
\* its categories list, also for an empty list and for a category that
\* holds the '|' character.
C22_CsvRoundTrip ==
    csv_rec.called =>
        \A k \in 1..Len(csv_rec.articles) :
            /\ csv_rec.rows[k].id = csv_rec.articles[k].id
            /\ ParseCategories(csv_rec.rows[k].categories) = csv_rec.articles[k].categories

----------------------------------------------------------------------------
(* Claims about DomainThrottler.async_throttle                              *)

\* C29: under any interleaving of concurrent async_throttle(url) coroutines
\* for one domain on one DomainThrottler, any two consecutive returns for
\* that domain are at least the domain's delay apart.
C29_AsyncThrottleSpacing ==
    \A d \in Domains :
        \A i \in 1..(Len(returns[d]) - 1) :
            returns[d][i + 1].time - returns[d][i].time >= DelayOf(d)

----------------------------------------------------------------------------
(* Claims about RateLimiter.wait                                            *)

\* The number of wait() calls that returned for domain d from time t1 to
\* time t2.
RECURSIVE ReturnedBetween(_, _, _)
ReturnedBetween(d, t1, t2) ==
    IF t1 > t2 THEN 0 ELSE rl_returns[d][t1] + ReturnedBetween(d, t1 + 1, t2)

\* In every interval the returns for a domain number at most burst_size plus
\* requests_per_second times the length of the interval.
RateBounded ==
    \A d \in Domains : \A t1 \in 0..MaxTime : \A t2 \in t1..MaxTime :
        ReturnedBetween(d, t1, t2) * token_parts
            <= BurstLevel + refill_per_second * (t2 - t1)

\* The level of every bucket is within 0..burst_size.
LevelWithinBucket ==
    \A d \in DOMAIN rl_tokens : rl_tokens[d] >= 0 /\ rl_tokens[d] <= BurstLevel

\* C30: every request admitted by wait(url) has taken one token of the
\* bucket of its domain, also when the caller slept first and when several
\* callers wait at once; so the returns of wait() for a domain in any
\* interval number at most burst_size plus requests_per_second times its
\* length, and the level of the bucket stays within 0..burst_size.
C30_EveryAdmissionTakesAToken ==
    /\ rl_unpaid = 0
    /\ RateBounded
    /\ LevelWithinBucket

----------------------------------------------------------------------------
(* Claims about the runs of NewsScraper                                     *)

\* C21: after a scrape_all run, stats['by_source'] holds for every source
\* whose scrape() returned the number of articles it returned.
C21_PerSourceCounts ==
    (op.name = "scrape_all" /\ opc = "done") =>
        \A i \in 1..Len(hist.scraped) :
            hist.scraped[i] \notin hist.scrape_raised =>
                /\ hist.scraped[i] \in DOMAIN stats.by_source
                /\ stats.by_source[hist.scraped[i]] = Len(hist.obtained[i])

\* C24: in a scrape_all run, once the deduplication pass has run no scrape()
\* is in progress or follows, every enabled source has been through its
\* scrape(), and every article obtained in the run is in the collection.
C24_DedupAfterAllScrapes ==
    (op.name = "scrape_all" /\ hist.collected) =>
        /\ opc = "done"
        /\ sidx > Len(scrapers)
        /\ EnabledNames("kenya") \cup EnabledNames("usa") \subseteq Scraped
        /\ \A i \in 1..Len(Obtained) : Contains(collection.articles, Obtained[i])

\* The deduplication pass ran after scrapes of both regions that between
\* them returned two articles of one id.
C24_Witness ==
    /\ op.name = "scrape_all"
    /\ hist.collected
    /\ Len(hist.scraped) = 3
    /\ \E i, j \in 1..Len(Obtained) : i # j /\ Obtained[i].id = Obtained[j].id
    /\ \E i \in 1..Len(hist.obtained) : i > 2 /\ hist.obtained[i] # <<>>

\* The descriptor of the source of a name.
SourceNamed(name) ==
    CHOOSE cfg \in {SourcesOf(Regions[m[1]])[m[2]] : m \in SourceMatches(name)} : TRUE

\* C25: no operation creates a scraper for, or calls scrape() of, a source
\* whose descriptor has enabled = false.
C25_OnlyEnabledScraped ==
    /\ \A i \in 1..Len(scrapers) : scrapers[i].config.enabled
    /\ \A i \in 1..Len(hist.scraped) : SourceNamed(hist.scraped[i]).enabled

\* C27: the list returned by scrape_region for a known region holds no two
\* articles of one id.
C27_RegionResultDeduplicated ==
    (op.name = "scrape_region" /\ opc = "done" /\ oresult.returned) =>
        \A i, j \in 1..Len(oresult.articles) :
            oresult.articles[i].id = oresult.articles[j].id => i = j

----------------------------------------------------------------------------
(* Claims about scrape_source and the specialised classes                   *)

\* C26: for every configured source, scrape_source uses the scraper class
\* that scrape_all and scrape_region use for it, so on the same remote
\* content both return the same articles for it.
C26_SourceRunLikeFullRun ==
    run_rec.called =>
        /\ run_rec.source_class = run_rec.full_class
        /\ run_rec.source_result = run_rec.full_result

====
